---- MODULE Spec2Model ----
(***************************************************************************)
(* LocationBasedServiceFilter (src/unnamed/part_001): the React component  *)
(* that acquires the customer's location (geolocation, manual address, map *)
(* pick), persists it in localStorage and asks the backend whether         *)
(* services are available there.                                           *)
(*                                                                         *)
(* One action is one run of JavaScript between two awaits: an event        *)
(* handler up to its first await, or the continuation of an await when its *)
(* promise settles, together with the render and the effects that the      *)
(* state changes of that run cause.                                        *)
(***************************************************************************)
EXTENDS Integers, Sequences, FiniteSets, TLC

\* ------------------------------------------------------------ bounds
\* User events (clicks, key strokes) in one session of the component.
MaxEvents == 3

\* ------------------------------------------------------------ values
\* JavaScript null / undefined for object-valued state.
Null == [null |-> TRUE]

\* Texts the user types are sequences of characters, so that trim() and
\* length are computed and not assumed.
Blank == <<" ">>
Text221B == <<"2", "2", "1", "B">>
ManualInputs == {<<>>, Blank, Text221B}

IsSpace(ch) == ch = " "

RECURSIVE TrimLeft(_)
TrimLeft(s) == IF s # <<>> /\ IsSpace(Head(s)) THEN TrimLeft(Tail(s)) ELSE s

RECURSIVE TrimRight(_)
TrimRight(s) ==
    IF s # <<>> /\ IsSpace(s[Len(s)]) THEN TrimRight(SubSeq(s, 1, Len(s) - 1)) ELSE s

\* String.prototype.trim
Trim(s) == TrimRight(TrimLeft(s))

\* Coordinates the geolocation provider, the geocoder and the map can yield.
Coords == {[lat |-> 12, lng |-> 77], [lat |-> 28, lng |-> 78]}

\* The geocoder's display_name for a coordinate pair.
DisplayName(c) == IF c.lat = 12 THEN "MG Road, Bengaluru" ELSE "Connaught Place, Delhi"

\* `${lat.toFixed(4)}, ${lng.toFixed(4)}`
CoordLabel(c) == IF c.lat = 12 THEN "12.0000, 77.0000" ELSE "28.0000, 78.0000"

\* An absent optional string (address?: string).
NoAddress == ""

\* interface Location
Location(c, a) == [lat |-> c.lat, lng |-> c.lng, address |-> a]

\* JSON.stringify(location): the text kept in localStorage. An undefined
\* address is dropped from the text.
Stringify(loc) ==
    IF loc.address = NoAddress
    THEN [json |-> <<<<"lat", loc.lat>>, <<"lng", loc.lng>>>>]
    ELSE [json |-> <<<<"lat", loc.lat>>, <<"lng", loc.lng>>, <<"address", loc.address>>>>]

\* JSON.parse(savedLocation) of a text written by Stringify.
Parse(txt) ==
    [lat |-> txt.json[1][2], lng |-> txt.json[2][2],
     address |-> IF Len(txt.json) >= 3 THEN txt.json[3][2] ELSE NoAddress]

\* Address details that a failed lookup did not clear.
KeptDetails ==
    [houseNumber |-> <<"7">>, street |-> <<>>, landmark |-> <<>>,
     city |-> <<>>, state |-> <<>>, zip |-> <<>>]

\* interface AddressDetails; {} and absent fields read as ''.
EmptyDetails ==
    [houseNumber |-> <<>>, street |-> <<>>, landmark |-> <<>>,
     city |-> <<>>, state |-> <<>>, zip |-> <<>>]

\* parts.filter(Boolean).join(', ')
RECURSIVE JoinNonEmpty(_)
JoinNonEmpty(parts) ==
    IF parts = <<>> THEN <<>>
    ELSE LET rest == JoinNonEmpty(Tail(parts))
         IN  IF Head(parts) = <<>> THEN rest
             ELSE IF rest = <<>> THEN Head(parts)
             ELSE Head(parts) \o <<",", " ">> \o rest

\* a || b for strings
OrElse(a, b) == IF a # <<>> THEN a ELSE b

\* The address object of a nominatim answer; an absent component is <<>>.
GeoAddress(house, road, suburb, city, town, state, postcode) ==
    [house_number |-> house, road |-> road, suburb |-> suburb, neighbourhood |-> <<>>,
     landmark |-> <<>>, public_building |-> <<>>, city |-> city, town |-> town,
     village |-> <<>>, county |-> <<>>, state |-> state, postcode |-> postcode]

Pin6 == <<"5", "6", "0", "0", "0", "1">>

\* What the geocoder knows about each coordinate pair: a complete address
\* for the first, one without house number and with a town for the second.
AddressOf(c) ==
    IF c.lat = 12
    THEN GeoAddress(<<"4", "2">>, <<"M", "G">>, <<>>, <<"B", "L", "R">>, <<>>, <<"K", "A">>, Pin6)
    ELSE GeoAddress(<<>>, <<"C", "P">>, <<"N", "D">>, <<>>, <<"D", "E", "L">>, <<"D", "L">>,
                    <<"1", "1", "0", "0", "0", "1">>)

\* Lines 93-104.
deriveAddressDetails(addr) ==
    IF addr = Null THEN EmptyDetails
    ELSE [houseNumber |-> addr.house_number,
          street |-> JoinNonEmpty(<<addr.road, addr.suburb, addr.neighbourhood>>),
          landmark |-> OrElse(addr.landmark, addr.public_building),
          city |-> OrElse(addr.city, OrElse(addr.town, OrElse(addr.village, addr.county))),
          state |-> addr.state,
          zip |-> addr.postcode]

\* Field-level messages of validateAddressDetails.
MsgHouse == "House/Flat/Block No. is required"
MsgStreet == "Street/Area is required"
MsgCity == "City is required"
MsgState == "State is required"
MsgZip == "Valid 6-digit pincode is required"

\* validateAddressDetails without the length test of line 125.
AddressErrorsNoLength(d) ==
    (IF Trim(d.houseNumber) = <<>> THEN {<<"houseNumber", MsgHouse>>} ELSE {}) \cup
    (IF Trim(d.street) = <<>> THEN {<<"street", MsgStreet>>} ELSE {}) \cup
    (IF Trim(d.city) = <<>> THEN {<<"city", MsgCity>>} ELSE {}) \cup
    (IF Trim(d.state) = <<>> THEN {<<"state", MsgState>>} ELSE {}) \cup
    (IF Trim(d.zip) = <<>> THEN {<<"zip", MsgZip>>} ELSE {})

\* Lines 106-131: newErrors, as the set of its (field, message) entries.
AddressErrorsOf(d) ==
    (IF Trim(d.houseNumber) = <<>> THEN {<<"houseNumber", MsgHouse>>} ELSE {}) \cup
    (IF Trim(d.street) = <<>> THEN {<<"street", MsgStreet>>} ELSE {}) \cup
    (IF Trim(d.city) = <<>> THEN {<<"city", MsgCity>>} ELSE {}) \cup
    (IF Trim(d.state) = <<>> THEN {<<"state", MsgState>>} ELSE {}) \cup
    (IF Trim(d.zip) = <<>> \/ Len(d.zip) # 6 THEN {<<"zip", MsgZip>>} ELSE {})

\* Lines 217-236: detailedAddress.
DetailedAddress(location, d) ==
    [houseNo |-> d.houseNumber, street |-> d.street, landmark |-> d.landmark,
     city |-> d.city, state |-> d.state, pincode |-> d.zip,
     fullAddress |-> JoinNonEmpty(<<d.houseNumber, d.street, d.landmark, d.city, d.state, d.zip>>),
     coordinates |-> [lat |-> location.lat, lng |-> location.lng]]

\* parseFloat of the decimal text of a whole number.
DigitValue(ch) ==
    CASE ch = "0" -> 0 [] ch = "1" -> 1 [] ch = "2" -> 2 [] ch = "3" -> 3 [] ch = "4" -> 4
      [] ch = "5" -> 5 [] ch = "6" -> 6 [] ch = "7" -> 7 [] ch = "8" -> 8 [] ch = "9" -> 9

RECURSIVE ParseFloat(_)
ParseFloat(t) ==
    IF t = <<>> THEN 0 ELSE 10 * ParseFloat(SubSeq(t, 1, Len(t) - 1)) + DigitValue(t[Len(t)])

\* The decimal text the geocoder sends for a coordinate.
CoordText(n) == IF n = 12 THEN <<"1", "2">> ELSE IF n = 28 THEN <<"2", "8">>
                ELSE IF n = 77 THEN <<"7", "7">> ELSE <<"7", "8">>

\* Answers of the nominatim reverse endpoint for coordinates c: the fetch
\* fails, or it yields display_name and address.
RevFail == [ok |-> FALSE, display_name |-> "", address |-> Null]
RevResponses(c) ==
    {RevFail, [ok |-> TRUE, display_name |-> DisplayName(c), address |-> AddressOf(c)]}

\* Answers of the nominatim search endpoint (limit=1): the fetch fails, or it
\* yields a list of at most one result.
FwdResult(c) ==
    [lat |-> CoordText(c.lat), lon |-> CoordText(c.lng), display_name |-> DisplayName(c),
     address |-> AddressOf(c)]
FwdResponses ==
    {[ok |-> FALSE, results |-> <<>>], [ok |-> TRUE, results |-> <<>>]} \cup
    {[ok |-> TRUE, results |-> <<FwdResult(c)>>] : c \in Coords}

\* What getCurrentLocation (../utils/geocodingService) resolves to.
GeolocResults == {Location(c, NoAddress) : c \in Coords}
\* err.message of a rejected getCurrentLocation; "" when it has none.
GeolocErrors == {"", "User denied Geolocation"}

\* What the user types into the address form.
FormEdits == {<<"houseNumber", <<"7">>>>, <<"houseNumber", <<>>>>, <<"zip", <<"5", "6">>>>}

\* ------------------------------------------------------------ messages
\* No fallback text.
NoMessage == ""
MsgLogin == "Please log in to check service availability"
MsgCheckFailed == "Failed to check service availability"
MsgDetectFailed == "Unable to detect your location. Please try manual address input."
MsgEnterAddress == "Please enter an address"
MsgNotFound == "Address not found. Please try a different address."
MsgGeocodeFailed == "Failed to process address. Please try again."


\* ------------------------------------------------------------ state
VARIABLES
    \* props and lifecycle
    mounted,                \* the mount effects have run
    startInMap,             \* prop startInMap
    events,                 \* user events so far
    \* useState slots (lines 69-91)
    customerLocation,
    isDetectingLocation,
    isCheckingAvailability,
    availabilityData,
    error,
    manualAddress,
    showManualInput,
    showMap,
    mapCenter,
    selectedMapLocation,
    showAddressForm,
    addressDetails,
    addressErrors,
    \* customerLocation and selectedMapLocation are the same object
    selIsCur,
    \* localStorage
    lsLocation,             \* 'customerLocation'
    lsToken,                \* 'token' is present
    lsDeliveryAddress,      \* 'deliveryAddress'
    \* requests whose promise has not settled yet
    availReqs,              \* POST /api/check-availability
    geoReqs,                \* getCurrentLocation and nominatim fetches
    saveReqs,               \* POST /api/user/location
    \* history
    last,                   \* what the latest step did
    changeCbs,              \* answers received for the current location change
    lastClick,              \* coordinates of the latest map click not cleared since
    \* repeated checks against an unchanged backend
    backend,                \* the backend's answer, held fixed
    firstRun                \* the state the first completed check left

fixedVars == <<startInMap, lsToken>>
rerunVars == <<backend, firstRun>>
filterVars ==
    <<mounted, events, customerLocation, isDetectingLocation, isCheckingAvailability,
      availabilityData, error, manualAddress, showManualInput, showMap, mapCenter,
      selectedMapLocation, showAddressForm, addressDetails, addressErrors, selIsCur,
      lsLocation, lsDeliveryAddress, availReqs, geoReqs, saveReqs, last, changeCbs,
      lastClick, fixedVars, rerunVars>>

\* NearbyWashermenWithSlots (src/unnamed/part_000)
VARIABLES
    nwPhase,                \* where the mount effect's getLocationAndSave stands
    nwChanges,              \* date changes so far
    nwLocation,             \* useState customerLocation (line 26)
    washermen,              \* line 27
    selectedDate,           \* line 28
    nwError,                \* useState error (line 29)
    loading,                \* line 30
    noWashermenFound,       \* line 31
    nwReqs,                 \* GET /api/washer/nearby requests not settled yet
    nwLast                  \* what the latest step did

nearbyVars ==
    <<nwPhase, nwChanges, nwLocation, washermen, selectedDate, nwError, loading,
      noWashermenFound, nwReqs, nwLast>>

\* The marker classification of NearbyWashermenMap
\* (src/Frontend/src/components/NearbyWashermenMap.tsx)
VARIABLES
    mkRange,                \* washerman.range
    mkDistance,             \* calculateDistance(...) of the latest render, meters
    mkInRange               \* inRange of the latest render

markerVars == <<mkRange, mkDistance, mkInRange>>

\* usePWAStatus (src/Frontend/src/hooks/usePWAStatus.ts)
VARIABLES
    pwaMounted,             \* the effect of lines 26-72 has run and is not cleaned up
    pwaEvents,              \* platform events, calls and mounts so far
    pwaTimer,               \* the timer of line 65 is pending
    standaloneMode,         \* display-mode: standalone or navigator.standalone
    isInstalled,            \* line 16
    isStandalone,           \* line 17
    canInstall,             \* line 18
    deferredPrompt,         \* line 19
    lsPwaInstalled,         \* localStorage 'pwa-installed' is 'true'
    pwaChoices,             \* installPWA calls awaiting deferredPrompt.userChoice
    pwaLast                 \* what the latest step did

pwaVars ==
    <<pwaMounted, pwaEvents, pwaTimer, standaloneMode, isInstalled, isStandalone,
      canInstall, deferredPrompt, lsPwaInstalled, pwaChoices, pwaLast>>

\* InstallPWAButton (src/Frontend/src/components/InstallPWAButton.tsx)
VARIABLES
    isAndroid,              \* /Android/i matches navigator.userAgent
    isIOS,                  \* /iPhone|iPad|iPod/i matches navigator.userAgent
    apkDownloads,           \* downloadAPK calls so far
    alerts,                 \* alert() calls so far
    propagated              \* the error the latest click handler let escape, "" for none

buttonVars == <<isAndroid, isIOS, apkDownloads, alerts, propagated>>

vars == <<filterVars, nearbyVars, markerVars, pwaVars, buttonVars>>

\* A component that is not on the page.
NearbyIdle ==
    /\ nwPhase = "off"
    /\ nwChanges = 0
    /\ nwLocation = Null
    /\ washermen = <<>>
    /\ selectedDate = ""
    /\ nwError = ""
    /\ loading = TRUE
    /\ noWashermenFound = FALSE
    /\ nwReqs = <<>>
    /\ nwLast = Null

MarkerIdle ==
    /\ mkRange = Null
    /\ mkDistance = 0
    /\ mkInRange = FALSE

PwaIdle ==
    /\ pwaMounted = FALSE
    /\ pwaEvents = 0
    /\ pwaTimer = FALSE
    /\ standaloneMode = FALSE
    /\ isInstalled = FALSE
    /\ isStandalone = FALSE
    /\ canInstall = FALSE
    /\ deferredPrompt = Null
    /\ lsPwaInstalled = FALSE
    /\ pwaChoices = <<>>
    /\ pwaLast = Null

ButtonIdle ==
    /\ isAndroid = FALSE
    /\ isIOS = FALSE
    /\ apkDownloads = 0
    /\ alerts = 0
    /\ propagated = ""

\* Everything that is not state of LocationBasedServiceFilter.
outsideVars == <<nearbyVars, markerVars, pwaVars, buttonVars>>
OutsideIdle == NearbyIdle /\ MarkerIdle /\ PwaIdle /\ ButtonIdle

\* useState({ lat: 20.5937, lng: 78.9629 }), in whole degrees
DefaultCenter == [lat |-> 20, lng |-> 78]

\* Locations a saved entry can hold: whatever an earlier session stored.
SavedLocations ==
    {Location(c, NoAddress) : c \in Coords} \cup {Location(c, DisplayName(c)) : c \in Coords}

\* ------------------------------------------------------------ history
\* A parent callback invocation.
Call(cb, loc, services) == [cb |-> cb, loc |-> loc, services |-> services]
CallLocationSet(loc) == Call("onLocationSet", loc, <<>>)
CallServicesFound(services) == Call("onServicesFound", Null, services)
CallNoServices == Call("onNoServices", Null, <<>>)

\* The record of one step: the operation, the parent callbacks it invoked in
\* order, whether a checkServiceAvailability call of the step found no token,
\* and the availability request it settled with the HTTP response to it (Null
\* when it settled none).
Step(op, calls, noTok, req, resp) ==
    [op |-> op, calls |-> calls, noTokenCheck |-> noTok, req |-> req, resp |-> resp]

\* A click or key stroke of the user.
UserEvent == events < MaxEvents /\ events' = events + 1

\* ------------------------------------------------------------ Init
Init ==
    /\ mounted = FALSE
    /\ startInMap \in BOOLEAN
    /\ events = 0
    /\ customerLocation = Null
    /\ isDetectingLocation = FALSE
    /\ isCheckingAvailability = FALSE
    /\ availabilityData = Null
    /\ error = ""
    /\ manualAddress = <<>>
    /\ showManualInput = FALSE
    /\ showMap = FALSE
    /\ mapCenter = DefaultCenter
    /\ selectedMapLocation = Null
    /\ showAddressForm = FALSE
    /\ addressDetails = EmptyDetails
    /\ addressErrors = {}
    /\ selIsCur = FALSE
    /\ lsLocation \in {Null} \cup {Stringify(l) : l \in SavedLocations}
    /\ lsToken \in BOOLEAN
    /\ lsDeliveryAddress = Null
    /\ availReqs = <<>>
    /\ geoReqs = <<>>
    /\ saveReqs = <<>>
    /\ last = Step("init", <<>>, FALSE, Null, Null)
    /\ changeCbs = <<>>
    /\ lastClick = Null
    /\ backend = Null
    /\ firstRun = Null
    /\ OutsideIdle

\* ------------------------------------------------------------ checkServiceAvailability
\* The part of the component a checkServiceAvailability call writes, threaded
\* through the calls one step makes.
CheckState(checking, err, reqs, noTok) ==
    [isChecking |-> checking, error |-> err, reqs |-> reqs, noTok |-> noTok]

\* A request in flight: the location it was issued for and what issued it:
\* "mount" (line 149), "effect" (line 170), "save" (line 737), or "stale" for
\* a mount or effect request once the confirmed location has changed again.
AvailReq(location, by) == [loc |-> location, by |-> by]

\* checkServiceAvailability without line 276: the branch without a token
\* returns with isCheckingAvailability still set.
checkServiceAvailabilityNoReset(s, location, by) ==
    IF ~lsToken
    THEN [s EXCEPT !.isChecking = TRUE, !.error = MsgLogin, !.noTok = TRUE]
    ELSE [s EXCEPT !.isChecking = TRUE, !.error = "",
                   !.reqs = Append(@, AvailReq(location, by))]

\* Lines 269-291: up to the await of axios.post.
checkServiceAvailability(s, location, by) ==
    IF ~lsToken
    THEN [s EXCEPT !.isChecking = FALSE, !.error = MsgLogin, !.noTok = TRUE]
    ELSE [s EXCEPT !.isChecking = TRUE, !.error = "",
                   !.reqs = Append(@, AvailReq(location, by))]

\* A component without the effect of lines 167-172.
LocationEffectNone(s, location) == s

\* Lines 167-172: the effect that runs after a render in which
\* customerLocation is a new non-null object.
LocationEffect(s, location) == checkServiceAvailability(s, location, "effect")

\* Requests issued for an earlier value of the confirmed location are stale.
MarkStale(reqs) ==
    [i \in DOMAIN reqs |->
        IF reqs[i].by \in {"mount", "effect"} THEN [reqs[i] EXCEPT !.by = "stale"] ELSE reqs[i]]

RemoveAt(seq, i) == SubSeq(seq, 1, i - 1) \o SubSeq(seq, i + 1, Len(seq))

\* What the backend can answer to POST /api/check-availability: a 2xx
\* ServiceAvailabilityResponse (lines 41-54), or a failure status whose body
\* may carry a message.
Services3 == <<"s1", "s2", "s3">>
OkResponses ==
    {[status |-> 200, servicesAvailable |-> TRUE, services |-> Services3, message |-> ""],
     [status |-> 200, servicesAvailable |-> FALSE, services |-> <<>>, message |-> ""]}
FailResponses ==
    {[status |-> 401, servicesAvailable |-> FALSE, services |-> <<>>, message |-> ""],
     [status |-> 401, servicesAvailable |-> FALSE, services |-> <<>>,
      message |-> "Request rejected"],
     [status |-> 500, servicesAvailable |-> FALSE, services |-> <<>>, message |-> ""]}
AvailResponses == OkResponses \cup FailResponses

\* response.data of a 2xx answer to the request for location loc.
ResponseData(loc, resp) ==
    [customerLocation |-> loc, servicesAvailable |-> resp.servicesAvailable,
     services |-> resp.services]

\* A setAvailabilityData that appends the new services to the ones held.
DataAccumulated(old, data) ==
    IF old = Null THEN data ELSE [data EXCEPT !.services = old.services \o data.services]

\* Lines 293-294: setAvailabilityData(response.data).
DataAfterSuccess(old, data) == data

\* Lines 296-300 without the else branch.
SuccessCallsNoElse(data) ==
    IF data.servicesAvailable THEN <<CallServicesFound(data.services)>> ELSE <<>>

\* Lines 296-300: the callback chosen by data.availability.servicesAvailable.
SuccessCalls(data) ==
    IF data.servicesAvailable THEN <<CallServicesFound(data.services)>>
    ELSE <<CallNoServices>>

\* Line 304: err.response?.data?.message || 'Failed to check service availability'.
FailureError(resp) == IF resp.message # "" THEN resp.message ELSE MsgCheckFailed

\* A catch block without line 305.
FailureCallsNone == <<>>

\* Line 305: the catch block's callback.
FailureCalls == <<CallNoServices>>

\* A checkServiceAvailability without the finally block of lines 306-308.
CheckingKept == TRUE

\* Line 307: the finally block.
CheckingAfterSettle == FALSE

\* Lines 293-308: the continuation of checkServiceAvailability when the
\* request settles, and, for a check awaited by Save and Continue, lines
\* 738-740.
AvailResolve(i, resp) ==
    LET req == availReqs[i]
        ok == resp.status = 200
        data == ResponseData(req.loc, resp)
        calls == IF ok THEN SuccessCalls(data) ELSE FailureCalls
    IN  /\ mounted
        /\ availReqs' = RemoveAt(availReqs, i)
        /\ availabilityData' =
              IF ok THEN DataAfterSuccess(availabilityData, data) ELSE availabilityData
        /\ error' = IF ok THEN error ELSE FailureError(resp)
        /\ isCheckingAvailability' = CheckingAfterSettle
        /\ IF req.by = "save"
           THEN /\ showAddressForm' = FALSE
                /\ showMap' = FALSE
                /\ selectedMapLocation' = Null
                /\ selIsCur' = FALSE
           ELSE UNCHANGED <<showAddressForm, showMap, selectedMapLocation, selIsCur>>
        /\ last' = Step("availResolve", calls, FALSE, req, resp)
        /\ changeCbs' = IF req.by \in {"mount", "effect"}
                        THEN Append(changeCbs, [resp |-> resp, calls |-> calls])
                        ELSE changeCbs
        /\ UNCHANGED <<mounted, events, customerLocation, isDetectingLocation, manualAddress,
                       showManualInput, mapCenter, addressDetails, addressErrors, lsLocation,
                       lsDeliveryAddress, geoReqs, saveReqs, fixedVars, lastClick>>

\* Lines 140-172 on mount: the saved-location effect, then the
\* customerLocation effect once for the initial render (customerLocation is
\* null: nothing) and once for the render with the restored location.
MountEffects ==
    LET saved == lsLocation
        location == Parse(saved)
        s0 == CheckState(isCheckingAvailability, error, availReqs, FALSE)
        s1 == IF saved # Null /\ ~startInMap
              THEN checkServiceAvailability(s0, location, "mount") ELSE s0
        s2 == IF saved # Null THEN LocationEffect(s1, location) ELSE s1
    IN  /\ ~mounted
        /\ mounted' = TRUE
        /\ customerLocation' = IF saved # Null THEN location ELSE customerLocation
        /\ showMap' = IF startInMap THEN TRUE ELSE showMap
        /\ mapCenter' = IF startInMap /\ saved # Null
                        THEN [lat |-> location.lat, lng |-> location.lng] ELSE mapCenter
        /\ isCheckingAvailability' = s2.isChecking
        /\ error' = s2.error
        /\ availReqs' = s2.reqs
        /\ last' = Step("mount",
                        IF saved # Null /\ ~startInMap THEN <<CallLocationSet(location)>> ELSE <<>>,
                        s2.noTok, Null, Null)
        /\ changeCbs' = <<>>
        /\ UNCHANGED <<events, isDetectingLocation, availabilityData, manualAddress,
                       showManualInput, selectedMapLocation, showAddressForm, addressDetails,
                       addressErrors, selIsCur, lsLocation, lsDeliveryAddress, geoReqs,
                       saveReqs, fixedVars, lastClick>>

\* A request in flight at the geolocation provider or the geocoder, with what
\* its continuation holds: "geoloc" (line 182), "detectRev" (line 189, holds
\* the detected location), "fwd" (line 322, holds the submitted text),
\* "clickRev" (line 372, holds the clicked coordinates).
GeoReq(kind, loc, text) == [kind |-> kind, loc |-> loc, text |-> text]

\* Lines 174-182: detectCurrentLocation up to the await of getCurrentLocation.
\* The button exists while no location is set and is disabled while detecting.
DetectClick ==
    /\ mounted
    /\ customerLocation = Null
    /\ ~isDetectingLocation
    /\ UserEvent
    /\ isDetectingLocation' = TRUE
    /\ error' = ""
    /\ geoReqs' = Append(geoReqs, GeoReq("geoloc", Null, <<>>))
    /\ last' = Step("detectClick", <<>>, FALSE, Null, Null)
    /\ UNCHANGED <<mounted, customerLocation, isCheckingAvailability, availabilityData,
                   manualAddress, showManualInput, showMap, mapCenter, selectedMapLocation,
                   showAddressForm, addressDetails, addressErrors, selIsCur, lsLocation,
                   lsDeliveryAddress, availReqs, saveReqs, changeCbs, fixedVars, lastClick>>

\* Lines 182-191: getCurrentLocation resolved; up to the await of the reverse
\* geocoding fetch, during which the customerLocation effect runs.
GeolocResolve(i, location) ==
    LET s0 == CheckState(isCheckingAvailability, error, MarkStale(availReqs), FALSE)
        s1 == LocationEffect(s0, location)
    IN  /\ mounted
        /\ geoReqs[i].kind = "geoloc"
        /\ customerLocation' = location
        /\ selIsCur' = FALSE
        /\ geoReqs' = [geoReqs EXCEPT ![i] = GeoReq("detectRev", location, <<>>)]
        /\ isCheckingAvailability' = s1.isChecking
        /\ error' = s1.error
        /\ availReqs' = s1.reqs
        /\ last' = Step("geolocResolve", <<CallLocationSet(location)>>, s1.noTok, Null, Null)
        /\ changeCbs' = <<>>
        /\ UNCHANGED <<mounted, events, isDetectingLocation, availabilityData, manualAddress,
                       showManualInput, showMap, mapCenter, selectedMapLocation,
                       showAddressForm, addressDetails, addressErrors, lsLocation,
                       lsDeliveryAddress, saveReqs, fixedVars, lastClick>>

\* Lines 202-208: getCurrentLocation (or the dynamic import) rejected.
GeolocReject(i, msg) ==
    /\ mounted
    /\ geoReqs[i].kind = "geoloc"
    /\ geoReqs' = RemoveAt(geoReqs, i)
    /\ error' = IF msg # "" THEN msg ELSE MsgDetectFailed
    /\ showManualInput' = TRUE
    /\ isDetectingLocation' = FALSE
    /\ last' = Step("geolocReject", <<>>, FALSE, Null, Null)
    /\ UNCHANGED <<mounted, events, customerLocation, isCheckingAvailability,
                   availabilityData, manualAddress, showMap, mapCenter, selectedMapLocation,
                   showAddressForm, addressDetails, addressErrors, selIsCur, lsLocation,
                   lsDeliveryAddress, availReqs, saveReqs, changeCbs, fixedVars, lastClick>>

\* Lines 192-200 and 206-208: the reverse geocoding fetch settled.
DetectRevResolve(i, rev) ==
    LET req == geoReqs[i]
    IN  /\ mounted
        /\ req.kind = "detectRev"
        /\ geoReqs' = RemoveAt(geoReqs, i)
        /\ addressDetails' = IF rev.ok THEN deriveAddressDetails(rev.address) ELSE EmptyDetails
        /\ showAddressForm' = TRUE
        /\ lsLocation' = Stringify(req.loc)
        /\ isDetectingLocation' = FALSE
        /\ last' = Step("detectRevResolve", <<>>, FALSE, Null, Null)
        /\ UNCHANGED <<mounted, events, customerLocation, isCheckingAvailability,
                       availabilityData, error, manualAddress, showManualInput, showMap,
                       mapCenter, selectedMapLocation, addressErrors, selIsCur,
                       lsDeliveryAddress, availReqs, saveReqs, changeCbs, fixedVars, lastClick>>

\* Line 446: "Enter Address Manually".
OpenManualInput ==
    /\ mounted
    /\ customerLocation = Null
    /\ ~showManualInput
    /\ UserEvent
    /\ showManualInput' = TRUE
    /\ last' = Step("openManualInput", <<>>, FALSE, Null, Null)
    /\ UNCHANGED <<mounted, customerLocation, isDetectingLocation, isCheckingAvailability,
                   availabilityData, error, manualAddress, showMap, mapCenter,
                   selectedMapLocation, showAddressForm, addressDetails, addressErrors,
                   selIsCur, lsLocation, lsDeliveryAddress, availReqs, geoReqs, saveReqs,
                   changeCbs, fixedVars, lastClick>>

\* Line 478: Cancel of the manual input.
CancelManualInput ==
    /\ mounted
    /\ customerLocation = Null
    /\ showManualInput
    /\ UserEvent
    /\ showManualInput' = FALSE
    /\ last' = Step("cancelManualInput", <<>>, FALSE, Null, Null)
    /\ UNCHANGED <<mounted, customerLocation, isDetectingLocation, isCheckingAvailability,
                   availabilityData, error, manualAddress, showMap, mapCenter,
                   selectedMapLocation, showAddressForm, addressDetails, addressErrors,
                   selIsCur, lsLocation, lsDeliveryAddress, availReqs, geoReqs, saveReqs,
                   changeCbs, fixedVars, lastClick>>

\* Line 465: onChange of the manual address input.
TypeManualAddress(text) ==
    /\ mounted
    /\ customerLocation = Null
    /\ showManualInput
    /\ text # manualAddress
    /\ UserEvent
    /\ manualAddress' = text
    /\ last' = Step("typeManualAddress", <<>>, FALSE, Null, Null)
    /\ UNCHANGED <<mounted, customerLocation, isDetectingLocation, isCheckingAvailability,
                   availabilityData, error, showManualInput, showMap, mapCenter,
                   selectedMapLocation, showAddressForm, addressDetails, addressErrors,
                   selIsCur, lsLocation, lsDeliveryAddress, availReqs, geoReqs, saveReqs,
                   changeCbs, fixedVars, lastClick>>

\* Lines 311-325: handleManualAddressSubmit up to the await of the search
\* fetch. The Submit button is disabled while isCheckingAvailability.
ManualSubmit ==
    /\ mounted
    /\ customerLocation = Null
    /\ showManualInput
    /\ ~isCheckingAvailability
    /\ UserEvent
    /\ IF Trim(manualAddress) = <<>>
       THEN /\ error' = MsgEnterAddress
            /\ UNCHANGED <<isCheckingAvailability, geoReqs>>
       ELSE /\ isCheckingAvailability' = TRUE
            /\ error' = ""
            /\ geoReqs' = Append(geoReqs, GeoReq("fwd", Null, manualAddress))
    /\ last' = Step("manualSubmit", <<>>, FALSE, Null, Null)
    /\ UNCHANGED <<mounted, customerLocation, isDetectingLocation, availabilityData,
                   manualAddress, showManualInput, showMap, mapCenter, selectedMapLocation,
                   showAddressForm, addressDetails, addressErrors, selIsCur, lsLocation,
                   lsDeliveryAddress, availReqs, saveReqs, changeCbs, fixedVars, lastClick>>

\* Lines 333-338 without line 337.
LocationOfResultNoAddress(result) ==
    [lat |-> ParseFloat(result.lat), lng |-> ParseFloat(result.lon), address |-> NoAddress]

\* Lines 333-338: the Location built from the first search result.
LocationOfResult(result) ==
    [lat |-> ParseFloat(result.lat), lng |-> ParseFloat(result.lon),
     address |-> result.display_name]

\* Lines 325-351: the search fetch settled.
FwdResolve(i, fwd) ==
    LET location == LocationOfResult(fwd.results[1])
        s0 == CheckState(isCheckingAvailability, error, MarkStale(availReqs), FALSE)
        s1 == LocationEffect(s0, location)
    IN  /\ mounted
        /\ geoReqs[i].kind = "fwd"
        /\ geoReqs' = RemoveAt(geoReqs, i)
        /\ IF ~fwd.ok \/ Len(fwd.results) = 0
           THEN /\ error' = IF fwd.ok THEN MsgNotFound ELSE MsgGeocodeFailed
                /\ isCheckingAvailability' = FALSE
                /\ last' = Step("fwdResolve", <<>>, FALSE, Null, Null)
                /\ UNCHANGED <<customerLocation, addressDetails, showAddressForm, lsLocation,
                               showManualInput, selIsCur, availReqs, changeCbs>>
           ELSE /\ customerLocation' = location
                /\ selIsCur' = FALSE
                /\ addressDetails' = deriveAddressDetails(fwd.results[1].address)
                /\ showAddressForm' = TRUE
                /\ lsLocation' = Stringify(location)
                /\ showManualInput' = FALSE
                /\ isCheckingAvailability' = s1.isChecking
                /\ error' = s1.error
                /\ availReqs' = s1.reqs
                /\ last' = Step("fwdResolve", <<CallLocationSet(location)>>, s1.noTok, Null, Null)
                /\ changeCbs' = <<>>
        /\ UNCHANGED <<mounted, events, isDetectingLocation, availabilityData, manualAddress,
                       showMap, mapCenter, selectedMapLocation, addressErrors,
                       lsDeliveryAddress, saveReqs, fixedVars, lastClick>>

\* Lines 354-363.
resetLocation ==
    /\ mounted
    /\ customerLocation # Null
    /\ UserEvent
    /\ customerLocation' = Null
    /\ availabilityData' = Null
    /\ error' = ""
    /\ manualAddress' = <<>>
    /\ showManualInput' = FALSE
    /\ showMap' = FALSE
    /\ selectedMapLocation' = Null
    /\ selIsCur' = FALSE
    /\ lsLocation' = Null
    /\ availReqs' = MarkStale(availReqs)
    /\ last' = Step("resetLocation", <<>>, FALSE, Null, Null)
    /\ changeCbs' = <<>>
    /\ UNCHANGED <<mounted, isDetectingLocation, isCheckingAvailability, mapCenter,
                   showAddressForm, addressDetails, addressErrors, lsDeliveryAddress,
                   geoReqs, saveReqs, fixedVars, lastClick>>

\* Lines 453 and 581: "Select from Map" / "Change on Map".
OpenMap ==
    /\ mounted
    /\ ~showMap
    /\ UserEvent
    /\ showMap' = TRUE
    /\ last' = Step("openMap", <<>>, FALSE, Null, Null)
    /\ UNCHANGED <<mounted, customerLocation, isDetectingLocation, isCheckingAvailability,
                   availabilityData, error, manualAddress, showManualInput, mapCenter,
                   selectedMapLocation, showAddressForm, addressDetails, addressErrors,
                   selIsCur, lsLocation, lsDeliveryAddress, availReqs, geoReqs, saveReqs,
                   changeCbs, fixedVars, lastClick>>

\* Lines 557-560 and 840-843: Cancel of the map.
CancelMap ==
    /\ mounted
    /\ showMap
    /\ UserEvent
    /\ showMap' = FALSE
    /\ selectedMapLocation' = Null
    /\ selIsCur' = FALSE
    /\ lastClick' = Null
    /\ last' = Step("cancelMap", <<>>, FALSE, Null, Null)
    /\ UNCHANGED <<mounted, customerLocation, isDetectingLocation, isCheckingAvailability,
                   availabilityData, error, manualAddress, showManualInput, mapCenter,
                   showAddressForm, addressDetails, addressErrors, lsLocation,
                   lsDeliveryAddress, availReqs, geoReqs, saveReqs, changeCbs, fixedVars>>

\* Lines 546 and 829: Reselect.
Reselect ==
    /\ mounted
    /\ showMap
    /\ selectedMapLocation # Null
    /\ UserEvent
    /\ selectedMapLocation' = Null
    /\ selIsCur' = FALSE
    /\ lastClick' = Null
    /\ last' = Step("reselect", <<>>, FALSE, Null, Null)
    /\ UNCHANGED <<mounted, customerLocation, isDetectingLocation, isCheckingAvailability,
                   availabilityData, error, manualAddress, showManualInput, showMap,
                   mapCenter, showAddressForm, addressDetails, addressErrors, lsLocation,
                   lsDeliveryAddress, availReqs, geoReqs, saveReqs, changeCbs, fixedVars>>

\* Lines 365-375: handleMapClick up to the await of the reverse fetch.
MapClick(c) ==
    /\ mounted
    /\ showMap
    /\ UserEvent
    /\ geoReqs' = Append(geoReqs, GeoReq("clickRev", Location(c, NoAddress), <<>>))
    /\ lastClick' = [lat |-> c.lat, lng |-> c.lng]
    /\ last' = Step("mapClick", <<>>, FALSE, Null, Null)
    /\ UNCHANGED <<mounted, customerLocation, isDetectingLocation, isCheckingAvailability,
                   availabilityData, error, manualAddress, showManualInput, showMap,
                   mapCenter, selectedMapLocation, showAddressForm, addressDetails,
                   addressErrors, selIsCur, lsLocation, lsDeliveryAddress, availReqs,
                   saveReqs, changeCbs, fixedVars>>

\* Lines 377-381 and 387-391: the Location a settled reverse fetch yields.
PickedLocation(c, rev) ==
    Location(c, IF rev.ok /\ rev.display_name # "" THEN rev.display_name ELSE CoordLabel(c))

\* Lines 375-394: the reverse fetch of a map click settled.
ClickRevResolve(i, rev) ==
    LET req == geoReqs[i]
    IN  /\ mounted
        /\ req.kind = "clickRev"
        /\ geoReqs' = RemoveAt(geoReqs, i)
        /\ selectedMapLocation' = PickedLocation(req.loc, rev)
        /\ selIsCur' = FALSE
        /\ addressDetails' = IF rev.ok THEN deriveAddressDetails(rev.address) ELSE EmptyDetails
        /\ last' = Step("clickRevResolve", <<>>, FALSE, Null, Null)
        /\ UNCHANGED <<mounted, events, customerLocation, isDetectingLocation,
                       isCheckingAvailability, availabilityData, error, manualAddress,
                       showManualInput, showMap, mapCenter, showAddressForm, addressErrors,
                       lsLocation, lsDeliveryAddress, availReqs, saveReqs, changeCbs,
                       fixedVars, lastClick>>

\* Line 400: what confirmMapLocation writes to localStorage 'customerLocation'.
StoredAfterConfirm(stored, location) == stored

\* Lines 398-404, and the customerLocation effect when the confirmed object
\* is a new one.
confirmMapLocation ==
    LET location == selectedMapLocation
        s0 == CheckState(isCheckingAvailability, error,
                         IF selIsCur THEN availReqs ELSE MarkStale(availReqs), FALSE)
        s1 == IF selIsCur THEN s0 ELSE LocationEffect(s0, location)
    IN  /\ mounted
        /\ showMap
        /\ selectedMapLocation # Null
        /\ UserEvent
        /\ customerLocation' = location
        /\ selIsCur' = TRUE
        /\ showAddressForm' = TRUE
        /\ lsLocation' = StoredAfterConfirm(lsLocation, location)
        /\ isCheckingAvailability' = s1.isChecking
        /\ error' = s1.error
        /\ availReqs' = s1.reqs
        /\ last' = Step("confirmMapLocation", <<CallLocationSet(location)>>, s1.noTok, Null, Null)
        /\ changeCbs' = IF selIsCur THEN changeCbs ELSE <<>>
        /\ UNCHANGED <<mounted, isDetectingLocation, availabilityData, manualAddress,
                       showManualInput, showMap, mapCenter, selectedMapLocation,
                       addressDetails, addressErrors, lsDeliveryAddress, geoReqs, saveReqs,
                       fixedVars, lastClick>>

\* Lines 658-710: onChange of a field of the address form.
EditAddress(field, text) ==
    /\ mounted
    /\ customerLocation # Null
    /\ showAddressForm
    /\ addressDetails[field] # text
    /\ UserEvent
    /\ addressDetails' = [addressDetails EXCEPT ![field] = text]
    /\ last' = Step("editAddress", <<>>, FALSE, Null, Null)
    /\ UNCHANGED <<mounted, customerLocation, isDetectingLocation, isCheckingAvailability,
                   availabilityData, error, manualAddress, showManualInput, showMap,
                   mapCenter, selectedMapLocation, showAddressForm, addressErrors, selIsCur,
                   lsLocation, lsDeliveryAddress, availReqs, geoReqs, saveReqs, changeCbs,
                   fixedVars, lastClick>>

\* Line 721: Cancel of the address form.
CancelAddressForm ==
    /\ mounted
    /\ customerLocation # Null
    /\ showAddressForm
    /\ UserEvent
    /\ showAddressForm' = FALSE
    /\ last' = Step("cancelAddressForm", <<>>, FALSE, Null, Null)
    /\ UNCHANGED <<mounted, customerLocation, isDetectingLocation, isCheckingAvailability,
                   availabilityData, error, manualAddress, showManualInput, showMap,
                   mapCenter, selectedMapLocation, addressDetails, addressErrors, selIsCur,
                   lsLocation, lsDeliveryAddress, availReqs, geoReqs, saveReqs, changeCbs,
                   fixedVars, lastClick>>

\* A POST /api/user/location in flight, with what Save and Continue's
\* closure holds.
SaveReq(location, details) == [loc |-> location, details |-> details]

\* Lines 727-741 with 211-213: Save and Continue up to the await of
\* axios.post in saveLocationToBackend; without a token nothing is awaited
\* and the handler runs to its end.
SaveAndContinue ==
    LET errs == AddressErrorsOf(addressDetails)
        s0 == CheckState(isCheckingAvailability, error, availReqs, FALSE)
        s1 == checkServiceAvailability(s0, customerLocation, "save")
    IN  /\ mounted
        /\ customerLocation # Null
        /\ showAddressForm
        /\ UserEvent
        /\ addressErrors' = errs
        /\ IF errs # {}
           THEN /\ last' = Step("saveAndContinue", <<>>, FALSE, Null, Null)
                /\ UNCHANGED <<isCheckingAvailability, error, showAddressForm, showMap,
                               selectedMapLocation, selIsCur, saveReqs>>
           ELSE IF lsToken
           THEN /\ saveReqs' = Append(saveReqs, SaveReq(customerLocation, addressDetails))
                /\ last' = Step("saveAndContinue", <<>>, FALSE, Null, Null)
                /\ UNCHANGED <<isCheckingAvailability, error, showAddressForm, showMap,
                               selectedMapLocation, selIsCur>>
           ELSE /\ isCheckingAvailability' = s1.isChecking
                /\ error' = s1.error
                /\ showAddressForm' = FALSE
                /\ showMap' = FALSE
                /\ selectedMapLocation' = Null
                /\ selIsCur' = FALSE
                /\ last' = Step("saveAndContinue", <<>>, s1.noTok, Null, Null)
                /\ UNCHANGED saveReqs
        /\ UNCHANGED <<mounted, customerLocation, isDetectingLocation, availabilityData,
                       manualAddress, showManualInput, mapCenter, addressDetails, lsLocation,
                       lsDeliveryAddress, availReqs, geoReqs, changeCbs, fixedVars, lastClick>>

\* A saveLocationToBackend that writes 'deliveryAddress' whether the POST
\* succeeded or not.
DeliveryAlwaysWritten(stored, ok, detailed) == detailed

\* Lines 239-266: localStorage 'deliveryAddress' after the POST settled; a
\* rejected POST skips line 262.
DeliveryAfterPost(stored, ok, detailed) == IF ok THEN detailed ELSE stored

\* Lines 239-266 and 737: axios.post of saveLocationToBackend settled; then
\* checkServiceAvailability up to its await.
SaveResolve(i, ok) ==
    LET req == saveReqs[i]
        s0 == CheckState(isCheckingAvailability, error, availReqs, FALSE)
        s1 == checkServiceAvailability(s0, req.loc, "save")
    IN  /\ mounted
        /\ saveReqs' = RemoveAt(saveReqs, i)
        /\ lsDeliveryAddress' =
              DeliveryAfterPost(lsDeliveryAddress, ok, DetailedAddress(req.loc, req.details))
        /\ isCheckingAvailability' = s1.isChecking
        /\ error' = s1.error
        /\ availReqs' = s1.reqs
        /\ IF s1.noTok
           THEN /\ showAddressForm' = FALSE
                /\ showMap' = FALSE
                /\ selectedMapLocation' = Null
                /\ selIsCur' = FALSE
           ELSE UNCHANGED <<showAddressForm, showMap, selectedMapLocation, selIsCur>>
        /\ last' = Step("saveResolve", <<>>, s1.noTok, req, [ok |-> ok])
        /\ UNCHANGED <<mounted, events, customerLocation, isDetectingLocation,
                       availabilityData, manualAddress, showManualInput, mapCenter,
                       addressDetails, addressErrors, lsLocation, geoReqs, changeCbs,
                       fixedVars, lastClick>>

\* ------------------------------------------------------------ specification
Next ==
    /\ \/ MountEffects
       \/ \E i \in DOMAIN availReqs, resp \in AvailResponses : AvailResolve(i, resp)
       \/ DetectClick
       \/ \E i \in DOMAIN geoReqs, location \in GeolocResults : GeolocResolve(i, location)
       \/ \E i \in DOMAIN geoReqs, msg \in GeolocErrors : GeolocReject(i, msg)
       \/ \E i \in DOMAIN geoReqs :
             /\ geoReqs[i].kind = "detectRev"
             /\ \E rev \in RevResponses(geoReqs[i].loc) : DetectRevResolve(i, rev)
       \/ OpenManualInput
       \/ CancelManualInput
       \/ \E text \in ManualInputs : TypeManualAddress(text)
       \/ ManualSubmit
       \/ \E i \in DOMAIN geoReqs, fwd \in FwdResponses : FwdResolve(i, fwd)
       \/ resetLocation
       \/ OpenMap
       \/ CancelMap
       \/ Reselect
       \/ \E c \in Coords : MapClick(c)
       \/ \E i \in DOMAIN geoReqs :
             /\ geoReqs[i].kind = "clickRev"
             /\ \E rev \in RevResponses(geoReqs[i].loc) : ClickRevResolve(i, rev)
       \/ confirmMapLocation
       \/ \E e \in FormEdits : EditAddress(e[1], e[2])
       \/ CancelAddressForm
       \/ SaveAndContinue
       \/ \E i \in DOMAIN saveReqs, ok \in BOOLEAN : SaveResolve(i, ok)
    /\ UNCHANGED rerunVars
    /\ UNCHANGED outsideVars

Spec == Init /\ [][Next]_vars

\* ------------------------------------------------------------ repeated checks
\* The component as typing an address, submitting it and receiving the search
\* result for c and the availability answer r0 leave it: location confirmed
\* and stored, address form open, nothing in flight.
RerunStart(c, r0) ==
    LET location == LocationOfResult(FwdResult(c))
        req == AvailReq(location, "effect")
        ok == r0.status = 200
        data == ResponseData(location, r0)
        calls == IF ok THEN SuccessCalls(data) ELSE FailureCalls
    IN  /\ mounted = TRUE
        /\ customerLocation = location
        /\ isDetectingLocation = FALSE
        /\ isCheckingAvailability = FALSE
        /\ availabilityData = IF ok THEN data ELSE Null
        /\ error = IF ok THEN "" ELSE FailureError(r0)
        /\ manualAddress = Text221B
        /\ showManualInput = FALSE
        /\ showMap = FALSE
        /\ mapCenter = DefaultCenter
        /\ selectedMapLocation = Null
        /\ showAddressForm = TRUE
        /\ addressDetails = deriveAddressDetails(AddressOf(c))
        /\ addressErrors = {}
        /\ selIsCur = FALSE
        /\ lsLocation = Stringify(location)
        /\ lsDeliveryAddress = Null
        /\ availReqs = <<>>
        /\ geoReqs = <<>>
        /\ saveReqs = <<>>
        /\ last = Step("availResolve", calls, FALSE, req, r0)
        /\ changeCbs = <<[resp |-> r0, calls |-> calls]>>
        /\ lastClick = Null

InitRerun ==
    /\ startInMap = FALSE
    /\ lsToken = TRUE
    /\ events = 0
    /\ \E c \in Coords, r0 \in AvailResponses : RerunStart(c, r0)
    /\ backend \in AvailResponses
    /\ firstRun = Null
    /\ OutsideIdle

\* What a completed check leaves, with the number of checks completed.
RunState(data, err, runs) == [data |-> data, error |-> err, runs |-> runs]

\* The backend answers every check with the same response.
AvailResolveRerun(i) ==
    /\ AvailResolve(i, backend)
    /\ firstRun' = IF firstRun = Null THEN RunState(availabilityData', error', 1)
                   ELSE [firstRun EXCEPT !.runs = @ + 1]
    /\ UNCHANGED backend

\* Save and Continue is the one control that runs checkServiceAvailability
\* again for the current Location.
NextRerun ==
    /\ \/ SaveAndContinue /\ UNCHANGED rerunVars
       \/ \E e \in FormEdits : EditAddress(e[1], e[2]) /\ UNCHANGED rerunVars
       \/ \E i \in DOMAIN saveReqs, ok \in BOOLEAN : SaveResolve(i, ok) /\ UNCHANGED rerunVars
       \/ \E i \in DOMAIN availReqs : AvailResolveRerun(i)
    /\ UNCHANGED outsideVars

SpecRerun == InitRerun /\ [][NextRerun]_vars

\* ------------------------------------------------------------ properties
\* Requests of the current location change that have not settled.
FreshReqs == {i \in DOMAIN availReqs : availReqs[i].by \in {"mount", "effect"}}

\* The latest step completed a location-setting operation successfully.
LocationSetDone ==
    \/ last.op \in {"detectRevResolve", "confirmMapLocation"}
    \/ last.op = "fwdResolve" /\ last.calls # <<>>

\* C1: after a successful location-setting operation (detection, manual
\* submit, map confirmation) completes, the stored 'customerLocation' entry
\* holds the in-memory customerLocation, and the operations that call
\* onLocationSet in their last step called it with that location.
C1_StoredEqualsConfirmed ==
    LocationSetDone =>
        /\ customerLocation # Null
        /\ lsLocation # Null
        /\ Parse(lsLocation) = customerLocation
        /\ last.op # "detectRevResolve" => last.calls = <<CallLocationSet(customerLocation)>>

\* C2: in every state of the mounted component the in-memory confirmed
\* location and the stored entry agree: both absent, or both the same
\* location.
C2_MemoryAgreesWithStore ==
    mounted =>
        IF customerLocation = Null THEN lsLocation = Null
        ELSE lsLocation # Null /\ Parse(lsLocation) = customerLocation

\* C3: once every availability response of the location changes so far has
\* arrived, whatever the order, the last parent callback and availabilityData
\* are those of the response to the check of the current location: a late
\* response to a check of a superseded location has no effect.
C3_StaleResponseDiscarded ==
    (/\ last.op = "availResolve"
     /\ last.req.by \in {"mount", "effect", "stale"}
     /\ customerLocation # Null
     /\ last.req.by = "stale" => last.req.loc # customerLocation
     /\ changeCbs # <<>>
     /\ FreshReqs = {}) =>
        LET a == changeCbs[Len(changeCbs)]
        IN  /\ last.calls = a.calls
            /\ a.resp.status = 200 => availabilityData = ResponseData(customerLocation, a.resp)

\* C4: at most one availability check is in flight for one change of the
\* confirmed location, the restore on mount included.
C4_OneCheckPerChange == Cardinality(FreshReqs) <= 1

\* C5: when every answer to the current location change says that no services
\* are available, onNoServices has been invoked exactly once for the change
\* and onServicesFound not at all.
C5_NoServicesOnce ==
    (/\ customerLocation # Null
     /\ changeCbs # <<>>
     /\ FreshReqs = {}
     /\ \A k \in DOMAIN changeCbs :
           changeCbs[k].resp.status = 200 /\ ~changeCbs[k].resp.servicesAvailable) =>
        [k \in DOMAIN changeCbs |-> changeCbs[k].calls] = <<<<CallNoServices>>>>

\* C6: a 2xx response invokes exactly one parent callback, onServicesFound
\* with exactly the returned services when servicesAvailable is true and
\* onNoServices otherwise, and availabilityData becomes the response.
C6_SuccessOneCallback ==
    (last.op = "availResolve" /\ last.resp.status = 200) =>
        /\ last.calls = IF last.resp.servicesAvailable
                        THEN <<CallServicesFound(last.resp.services)>>
                        ELSE <<CallNoServices>>
        /\ availabilityData = ResponseData(last.req.loc, last.resp)

C6_Witness ==
    /\ last.op = "availResolve"
    /\ last.resp.status = 200
    /\ last.resp.servicesAvailable
    /\ last.calls = <<CallServicesFound(Services3)>>
    /\ availabilityData # Null
    /\ availabilityData.services = Services3

\* C7: a non-2xx response sets an error message, invokes onNoServices exactly
\* once and onServicesFound never, and leaves isCheckingAvailability false.
C7_FailureReported ==
    (last.op = "availResolve" /\ last.resp.status # 200) =>
        /\ error # ""
        /\ last.calls = <<CallNoServices>>
        /\ ~isCheckingAvailability

C7_Witness ==
    /\ last.op = "availResolve"
    /\ last.resp.status = 500
    /\ error = MsgCheckFailed
    /\ last.calls = <<CallNoServices>>

\* C8: the error a 401 response leaves is distinct from the error any other
\* failure status can leave, whatever the response body contains.
C8_UnauthenticatedDistinct ==
    (last.op = "availResolve" /\ last.resp.status = 401) =>
        error \notin {FailureError(r) : r \in {f \in FailResponses : f.status # 401}}

\* C9: a checkServiceAvailability call that finds no token issues no request,
\* sets the sign-in error, leaves availabilityData as it was and leaves
\* isCheckingAvailability false.
C9_NoTokenNoRequest ==
    [][last'.noTokenCheck =>
          /\ Len(availReqs') = Len(availReqs)
          /\ error' = MsgLogin
          /\ availabilityData' = availabilityData
          /\ ~isCheckingAvailability']_vars

C9_Witness ==
    /\ last.noTokenCheck
    /\ customerLocation # Null
    /\ error = MsgLogin
    /\ availReqs = <<>>

\* C10: with the location and the backend's answer unchanged, every further
\* completed check leaves availabilityData and error as the first one left
\* them.
C10_RerunSameState ==
    (firstRun # Null /\ availReqs = <<>>) =>
        /\ availabilityData = firstRun.data
        /\ error = firstRun.error

C10_Witness ==
    /\ firstRun # Null
    /\ firstRun.runs >= 2
    /\ availReqs = <<>>
    /\ backend.status = 200
    /\ backend.servicesAvailable
    /\ availabilityData = firstRun.data

\* ------------------------------------------------------------ the address form
\* What the user can have typed into the fields of the address form (lines
\* 658-710); the pincode input takes at most 6 characters of any kind
\* (maxLength, line 711).
TypedDetails ==
    [houseNumber : {<<>>, Blank, <<"7">>},
     street : {<<>>, <<"M", "G">>},
     landmark : {<<>>},
     city : {<<>>, <<"B", "L", "R">>},
     state : {<<>>, <<"K", "A">>},
     zip : {<<>>, <<"5", "6">>, Pin6, <<"5", "6", "0", "0", "0", "A">>}]

\* The component with a location confirmed by manual submit, its check
\* answered, and the address form filled in by the user with d.
FormStart(d) ==
    LET location == LocationOfResult(FwdResult([lat |-> 12, lng |-> 77]))
        req == AvailReq(location, "effect")
        r0 == [status |-> 200, servicesAvailable |-> TRUE, services |-> Services3,
               message |-> ""]
        data == ResponseData(location, r0)
        calls == SuccessCalls(data)
    IN  /\ mounted = TRUE
        /\ customerLocation = location
        /\ isDetectingLocation = FALSE
        /\ isCheckingAvailability = FALSE
        /\ availabilityData = data
        /\ error = ""
        /\ manualAddress = Text221B
        /\ showManualInput = FALSE
        /\ showMap = FALSE
        /\ mapCenter = DefaultCenter
        /\ selectedMapLocation = Null
        /\ showAddressForm = TRUE
        /\ addressDetails = d
        /\ addressErrors = {}
        /\ selIsCur = FALSE
        /\ lsLocation = Stringify(location)
        /\ lsDeliveryAddress = Null
        /\ availReqs = <<>>
        /\ geoReqs = <<>>
        /\ saveReqs = <<>>
        /\ last = Step("editAddress", <<>>, FALSE, Null, Null)
        /\ changeCbs = <<[resp |-> r0, calls |-> calls]>>
        /\ lastClick = Null

InitForm ==
    /\ startInMap = FALSE
    /\ lsToken = TRUE
    /\ events = 0
    /\ \E d \in TypedDetails : FormStart(d)
    /\ backend = Null
    /\ firstRun = Null
    /\ OutsideIdle

NextForm ==
    /\ \/ SaveAndContinue
       \/ \E e \in FormEdits : EditAddress(e[1], e[2])
       \/ \E i \in DOMAIN saveReqs, ok \in BOOLEAN : SaveResolve(i, ok)
       \/ \E i \in DOMAIN availReqs, resp \in AvailResponses : AvailResolve(i, resp)
    /\ UNCHANGED rerunVars
    /\ UNCHANGED outsideVars

SpecForm == InitForm /\ [][NextForm]_vars

\* C11: Save and Continue accepts the address (no field message) if and only
\* if house number, street, city and state are non-blank and the pincode is
\* exactly 6 digits; otherwise addressErrors has a message for exactly the
\* offending fields.
C11_AcceptedIffSixDigits ==
    LET d == addressDetails
        digits == {"0", "1", "2", "3", "4", "5", "6", "7", "8", "9"}
        sixDigits == Len(d.zip) = 6 /\ \A k \in 1..Len(d.zip) : d.zip[k] \in digits
        offending ==
            {f \in {"houseNumber", "street", "city", "state"} : Trim(d[f]) = <<>>} \cup
            (IF sixDigits THEN {} ELSE {"zip"})
    IN  last.op = "saveAndContinue" =>
            /\ (addressErrors = {}) <=> (offending = {})
            /\ {e[1] : e \in addressErrors} = offending

\* C12: when the pincode's length is not 6 or a mandatory field is empty,
\* Save and Continue issues neither POST /api/user/location nor POST
\* /api/check-availability, invokes no parent callback and leaves the address
\* form open.
C12_InvalidNoNetwork ==
    [][(/\ last'.op = "saveAndContinue"
        /\ \/ Len(addressDetails.zip) # 6
           \/ \E f \in {"houseNumber", "street", "city", "state"} : addressDetails[f] = <<>>) =>
          /\ saveReqs' = saveReqs
          /\ availReqs' = availReqs
          /\ last'.calls = <<>>
          /\ showAddressForm']_vars

C12_Witness ==
    /\ last.op = "saveAndContinue"
    /\ addressDetails.zip = <<"5", "6">>
    /\ addressErrors = {<<"zip", MsgZip>>}
    /\ showAddressForm
    /\ saveReqs = <<>>
    /\ availReqs = <<>>

\* ------------------------------------------------------------ after a denial
\* The component after mount without a saved location, a click on "Detect My
\* Location" and the rejection of getCurrentLocation with err.message msg.
DeniedStart(msg) ==
    /\ mounted = TRUE
    /\ events = 1
    /\ customerLocation = Null
    /\ isDetectingLocation = FALSE
    /\ isCheckingAvailability = FALSE
    /\ availabilityData = Null
    /\ error = IF msg # "" THEN msg ELSE MsgDetectFailed
    /\ manualAddress = <<>>
    /\ showManualInput = TRUE
    /\ showMap = FALSE
    /\ mapCenter = DefaultCenter
    /\ selectedMapLocation = Null
    /\ showAddressForm = FALSE
    /\ addressDetails = EmptyDetails
    /\ addressErrors = {}
    /\ selIsCur = FALSE
    /\ lsLocation = Null
    /\ lsDeliveryAddress = Null
    /\ availReqs = <<>>
    /\ geoReqs = <<>>
    /\ saveReqs = <<>>
    /\ last = Step("geolocReject", <<>>, FALSE, Null, Null)
    /\ changeCbs = <<>>
    /\ lastClick = Null

InitDenied ==
    /\ startInMap = FALSE
    /\ lsToken \in BOOLEAN
    /\ \E msg \in GeolocErrors : DeniedStart(msg)
    /\ backend = Null
    /\ firstRun = Null
    /\ OutsideIdle

\* What can follow while no location is confirmed: the manual path (type,
\* submit, the search settles, the check settles) and another detection.
NextDenied ==
    /\ \/ \E text \in ManualInputs : TypeManualAddress(text)
       \/ ManualSubmit
       \/ CancelManualInput
       \/ OpenManualInput
       \/ DetectClick
       \/ \E i \in DOMAIN geoReqs, location \in GeolocResults : GeolocResolve(i, location)
       \/ \E i \in DOMAIN geoReqs, msg \in GeolocErrors : GeolocReject(i, msg)
       \/ \E i \in DOMAIN geoReqs :
             /\ geoReqs[i].kind = "detectRev"
             /\ \E rev \in RevResponses(geoReqs[i].loc) : DetectRevResolve(i, rev)
       \/ \E i \in DOMAIN geoReqs, fwd \in FwdResponses : FwdResolve(i, fwd)
       \/ \E i \in DOMAIN availReqs, resp \in AvailResponses : AvailResolve(i, resp)
    /\ UNCHANGED rerunVars
    /\ UNCHANGED outsideVars

SpecDenied == InitDenied /\ [][NextDenied]_vars

\* C13: after a denied geolocation, a manual submit whose search returns one
\* match stores the Location with the match's address, in memory and in
\* localStorage, and starts the availability check in the same step, without
\* a further user action; the answer servicesAvailable with 3 services hands
\* exactly those 3 services to onServicesFound.
C13_DeniedThenManual ==
    /\ (last.op = "fwdResolve" /\ last.calls # <<>>) =>
          /\ customerLocation \in {Location(c, DisplayName(c)) : c \in Coords}
          /\ lsLocation = Stringify(customerLocation)
          /\ last.calls = <<CallLocationSet(customerLocation)>>
          /\ IF lsToken
             THEN availReqs # <<>> /\
                  availReqs[Len(availReqs)] = AvailReq(customerLocation, "effect")
             ELSE last.noTokenCheck
    /\ (/\ last.op = "availResolve"
        /\ last.resp.status = 200
        /\ last.resp.servicesAvailable
        /\ Len(last.resp.services) = 3) =>
          /\ last.calls = <<CallServicesFound(last.resp.services)>>
          /\ availabilityData.services = last.resp.services

C13_Witness ==
    /\ last.op = "availResolve"
    /\ events = 3
    /\ manualAddress = Text221B
    /\ customerLocation = Location([lat |-> 12, lng |-> 77], "MG Road, Bengaluru")
    /\ lsLocation = Stringify(customerLocation)
    /\ last.req = AvailReq(customerLocation, "effect")
    /\ last.calls = <<CallServicesFound(Services3)>>

\* C14: when the search of a manual submit returns zero results, the
\* continuation sets the address-not-found error and isCheckingAvailability
\* false, calls no parent callback and leaves the confirmed location, the
\* stored location and the rest of the component as they were; with at least
\* one result it stores, in memory and in localStorage, a Location whose
\* address is the first result's display_name.
C14_ZeroResultsOrFirstResult ==
    [][\A i \in DOMAIN geoReqs, fwd \in FwdResponses :
          (fwd.ok /\ FwdResolve(i, fwd)) =>
              IF Len(fwd.results) = 0
              THEN /\ error' = MsgNotFound
                   /\ ~isCheckingAvailability'
                   /\ last'.calls = <<>>
                   /\ UNCHANGED <<customerLocation, lsLocation, availabilityData, availReqs,
                                  saveReqs, manualAddress, showManualInput, showAddressForm,
                                  addressDetails, showMap, selectedMapLocation,
                                  lsDeliveryAddress>>
              ELSE /\ customerLocation' # Null
                   /\ customerLocation'.address = fwd.results[1].display_name
                   /\ lsLocation' # Null
                   /\ Parse(lsLocation') = customerLocation']_vars

C14_Witness ==
    /\ last.op = "fwdResolve"
    /\ error = MsgNotFound
    /\ last.calls = <<>>
    /\ manualAddress = Text221B
    /\ customerLocation = Null
    /\ lsLocation = Null
    /\ ~isCheckingAvailability

\* C15: when getCurrentLocation rejects, detectCurrentLocation sets an error
\* message, shows the manual input, ends with isDetectingLocation false,
\* calls no parent callback and leaves the confirmed and the stored location
\* unchanged.
C15_DetectionFailureFallsBack ==
    [][last'.op = "geolocReject" =>
          /\ error' # ""
          /\ showManualInput'
          /\ ~isDetectingLocation'
          /\ last'.calls = <<>>
          /\ customerLocation' = customerLocation
          /\ lsLocation' = lsLocation]_vars

C15_Witness ==
    /\ last.op = "geolocReject"
    /\ events = 2
    /\ error = MsgDetectFailed
    /\ showManualInput
    /\ ~isDetectingLocation
    /\ customerLocation = Null
    /\ lsLocation = Null

\* C16: a resolved getCurrentLocation stores the Location in memory and
\* notifies the parent; when the reverse geocoding then fails, the
\* continuation still persists that Location, opens the address form with
\* every address field blank, sets no error and ends the detection.
C16_ReverseFailureNonFatal ==
    [][/\ \A i \in DOMAIN geoReqs, location \in GeolocResults :
             GeolocResolve(i, location) =>
                 /\ customerLocation' = location
                 /\ last'.calls = <<CallLocationSet(location)>>
       /\ \A i \in DOMAIN geoReqs :
             DetectRevResolve(i, RevFail) =>
                 /\ lsLocation' # Null
                 /\ Parse(lsLocation') = geoReqs[i].loc
                 /\ showAddressForm'
                 /\ \A f \in DOMAIN addressDetails' : addressDetails'[f] = <<>>
                 /\ error' = error
                 /\ ~isDetectingLocation']_vars

C16_Witness ==
    /\ last.op = "detectRevResolve"
    /\ customerLocation # Null
    /\ lsLocation = Stringify(customerLocation)
    /\ showAddressForm
    /\ \A f \in DOMAIN addressDetails : addressDetails[f] = <<>>
    /\ error = ""
    /\ ~isDetectingLocation

\* ------------------------------------------------------------ idle filter
\* LocationBasedServiceFilter not on the page.
FilterIdle ==
    /\ mounted = FALSE
    /\ startInMap = FALSE
    /\ events = 0
    /\ customerLocation = Null
    /\ isDetectingLocation = FALSE
    /\ isCheckingAvailability = FALSE
    /\ availabilityData = Null
    /\ error = ""
    /\ manualAddress = <<>>
    /\ showManualInput = FALSE
    /\ showMap = FALSE
    /\ mapCenter = DefaultCenter
    /\ selectedMapLocation = Null
    /\ showAddressForm = FALSE
    /\ addressDetails = EmptyDetails
    /\ addressErrors = {}
    /\ selIsCur = FALSE
    /\ lsLocation = Null
    /\ lsToken = TRUE
    /\ lsDeliveryAddress = Null
    /\ availReqs = <<>>
    /\ geoReqs = <<>>
    /\ saveReqs = <<>>
    /\ last = Step("init", <<>>, FALSE, Null, Null)
    /\ changeCbs = <<>>
    /\ lastClick = Null
    /\ backend = Null
    /\ firstRun = Null

\* ------------------------------------------------------------ NearbyWashermenWithSlots
\* Date changes in one session of the component.
MaxDateChanges == 3

\* Values of the date input.
Dates == {"2026-11-06", "2026-11-07"}

\* What GET /api/washer/nearby can answer: an array of washermen, possibly
\* empty, or a failure status.
NwLists == {<<>>, <<"w1">>, <<"w2", "w3">>}
NwResponses ==
    {[ok |-> TRUE, status |-> 200, data |-> l] : l \in NwLists} \cup
    {[ok |-> FALSE, status |-> st, data |-> <<>>] : st \in {401, 500}}

\* Line 81, line 83, and the fallbacks of lines 55 and 98 (without their
\* leading pictograph).
MsgSignIn == "Please sign in to view nearby washermen"
MsgHttp500 == "HTTP error! status: 500"
MsgAccessDenied == "Location access denied. Please enable GPS and refresh."

\* err.message of a rejected getCurrentLocation or saveCustomerLocation
\* (../utils/locationUtils); "" when it has none.
NwRejections == {"", "Failed to save location"}

\* Lines 68-70: the date that fetchNearbyWashermen puts into the URL ("" for
\* the URL without a date) is the selectedDate of the render that created
\* the running handler; chosen is the value just passed to setSelectedDate.
QueryDate(rendered, chosen) == rendered

\* A request in flight: its URL's coordinates and date, what issued it
\* ("mount", line 51, or "date", line 107) and the date chosen by the change
\* that issued it.
NwReq(loc, date, by, chosen) ==
    [lat |-> loc.lat, lng |-> loc.lng, date |-> date, by |-> by, chosen |-> chosen]

NwStep(op, req, res) == [op |-> op, req |-> req, res |-> res]

InitNearby ==
    /\ nwPhase = "init"
    /\ nwChanges = 0
    /\ nwLocation = Null
    /\ washermen = <<>>
    /\ selectedDate = ""
    /\ nwError = ""
    /\ loading = TRUE
    /\ noWashermenFound = FALSE
    /\ nwReqs = <<>>
    /\ nwLast = NwStep("init", Null, Null)
    /\ FilterIdle
    /\ MarkerIdle
    /\ PwaIdle
    /\ ButtonIdle

\* Lines 41-45 and 60: the mount effect up to the await of getCurrentLocation.
NwMount ==
    /\ nwPhase = "init"
    /\ nwPhase' = "locating"
    /\ nwLast' = NwStep("mount", Null, Null)
    /\ UNCHANGED <<nwChanges, nwLocation, washermen, selectedDate, nwError, loading,
                   noWashermenFound, nwReqs>>

\* Lines 45-49: getCurrentLocation resolved; up to the await of
\* saveCustomerLocation.
NwLocated(c) ==
    /\ nwPhase = "locating"
    /\ nwPhase' = "saving"
    /\ nwLocation' = c
    /\ nwLast' = NwStep("located", Null, Null)
    /\ UNCHANGED <<nwChanges, washermen, selectedDate, nwError, loading, noWashermenFound,
                   nwReqs>>

\* Lines 53-57: getCurrentLocation or saveCustomerLocation rejected.
NwRejected(msg) ==
    /\ nwPhase \in {"locating", "saving"}
    /\ nwPhase' = "done"
    /\ nwError' = IF msg # "" THEN msg ELSE MsgAccessDenied
    /\ loading' = FALSE
    /\ nwLast' = NwStep("rejected", Null, Null)
    /\ UNCHANGED <<nwChanges, nwLocation, washermen, selectedDate, noWashermenFound, nwReqs>>

\* Lines 49-51 and 63-72: saveCustomerLocation resolved; fetchNearbyWashermen
\* up to the await of apiFetch.
NwSaved ==
    /\ nwPhase = "saving"
    /\ nwPhase' = "fetching"
    /\ nwReqs' = Append(nwReqs, NwReq(nwLocation, QueryDate(selectedDate, ""), "mount", ""))
    /\ nwLast' = NwStep("saved", Null, Null)
    /\ UNCHANGED <<nwChanges, nwLocation, washermen, selectedDate, nwError, loading,
                   noWashermenFound>>

\* Lines 79-99: apiFetch settled; for the request of the mount effect also
\* line 52.
NwFetchSettled(i, res) ==
    LET req == nwReqs[i]
    IN  /\ nwReqs' = RemoveAt(nwReqs, i)
        /\ IF res.ok
           THEN /\ IF res.data = <<>>
                   THEN noWashermenFound' = TRUE /\ UNCHANGED washermen
                   ELSE washermen' = res.data /\ UNCHANGED noWashermenFound
                /\ UNCHANGED nwError
           ELSE /\ nwError' = IF res.status = 401 THEN MsgSignIn ELSE MsgHttp500
                /\ UNCHANGED <<washermen, noWashermenFound>>
        /\ IF req.by = "mount"
           THEN loading' = FALSE /\ nwPhase' = "done"
           ELSE UNCHANGED <<loading, nwPhase>>
        /\ nwLast' = NwStep("fetchSettled", req, res)
        /\ UNCHANGED <<nwChanges, nwLocation, selectedDate>>

\* Lines 102-109: onChange of the date input, which is rendered once loading
\* is over, no error is set and the location is known (lines 121-157).
handleDateChange(date) ==
    /\ ~loading
    /\ nwError = ""
    /\ nwLocation # Null
    /\ date # selectedDate
    /\ nwChanges < MaxDateChanges
    /\ nwChanges' = nwChanges + 1
    /\ selectedDate' = date
    /\ nwReqs' = Append(nwReqs, NwReq(nwLocation, QueryDate(selectedDate, date), "date", date))
    /\ nwLast' = NwStep("dateChange", Null, Null)
    /\ UNCHANGED <<nwPhase, nwLocation, washermen, nwError, loading, noWashermenFound>>

NextNearby ==
    /\ \/ NwMount
       \/ \E c \in Coords : NwLocated(c)
       \/ \E msg \in NwRejections : NwRejected(msg)
       \/ NwSaved
       \/ \E i \in DOMAIN nwReqs, res \in NwResponses : NwFetchSettled(i, res)
       \/ \E date \in Dates : handleDateChange(date)
    /\ UNCHANGED <<filterVars, markerVars, pwaVars, buttonVars>>

SpecNearby == InitNearby /\ [][NextNearby]_vars

\* C17: the nearby query issued for a date change carries the date chosen by
\* that change.
C17_QueryCarriesChosenDate ==
    \A i \in DOMAIN nwReqs : nwReqs[i].by = "date" => nwReqs[i].date = nwReqs[i].chosen

\* C18: once the query of the latest date change has completed with a 2xx
\* answer, and no other query is in flight, the list on display is that
\* answer's array, the empty one included.
C18_ListIsLatestResult ==
    (/\ nwLast.op = "fetchSettled"
     /\ nwLast.req.by = "date"
     /\ nwLast.req.chosen = selectedDate
     /\ nwLast.res.ok
     /\ nwReqs = <<>>
     /\ nwError = "") =>
        washermen = nwLast.res.data

\* ------------------------------------------------------------ NearbyWashermenMap markers
\* Largest distance between customer and washerman, in meters.
MaxDistance == 1000

\* Distances the renders see.
Distances == {d \in 0..MaxDistance : d % 50 = 0}

\* washerman.range (range?: number, line 11): absent, or a number of meters.
Ranges ==
    {[specified |-> FALSE, value |-> 0]} \cup
    {[specified |-> TRUE, value |-> v] : v \in {0, 100, 500, 800, 1000}}

\* Line 241: the right operand of ||.
DefaultRange == 500

\* Line 241: washerman.range || 500; undefined and 0 are both falsy.
RangeOrDefault(r) == IF ~r.specified \/ r.value = 0 THEN DefaultRange ELSE r.value

\* Line 241: inRange.
InRange(distance, r) == distance <= RangeOrDefault(r)

InitMarker ==
    /\ mkRange \in Ranges
    /\ mkDistance = 0
    /\ mkInRange = InRange(0, mkRange)
    /\ FilterIdle
    /\ NearbyIdle
    /\ PwaIdle
    /\ ButtonIdle

\* Lines 233-241: a render with the washerman at distance d.
RenderMarker(d) ==
    /\ d # mkDistance
    /\ mkDistance' = d
    /\ mkInRange' = InRange(d, mkRange)
    /\ UNCHANGED mkRange

NextMarker ==
    /\ \E d \in Distances : RenderMarker(d)
    /\ UNCHANGED <<filterVars, nearbyVars, pwaVars, buttonVars>>

SpecMarker == InitMarker /\ [][NextMarker]_vars

\* C19: a washerman is in range if and only if the distance is at most the
\* washerman's own declared range, 500 meters standing in only when no range
\* is declared.
C19_InRangeIffWithinDeclared ==
    mkInRange <=> mkDistance <= (IF mkRange.specified THEN mkRange.value ELSE 500)

\* ------------------------------------------------------------ usePWAStatus
\* Platform events, installPWA calls and unmounts in one run.
MaxPwaEvents == 4

\* Line 76, and the TypeError of calling prompt() on null.
MsgPromptUnavailable == "PWA install prompt not available"
MsgNullPrompt == "TypeError: Cannot read properties of null (reading 'prompt')"

\* What the user answers to the browser's install dialog.
Outcomes == {"accepted", "dismissed"}

\* The record of one step: the operation and the message of the error it
\* threw ("" when it threw none).
PwaStep(op, threw) == [op |-> op, threw |-> threw]

\* A beforeinstallprompt event object.
Prompt(n) == [prompt |-> n]

\* An installPWA call awaiting userChoice: the prompt it holds and whether
\* the hook instance that made the call is still mounted.
Choice(p, live) == [prompt |-> p, live |-> live]

\* An installPWA without the test of line 75.
PromptAssumed(p) == TRUE

\* Line 75: !deferredPrompt is false.
PromptAvailable(p) == p # Null

\* Lines 16-19: the state before the first mount, in a browser that runs
\* standalone or not and has the stored flag or not.
PwaStart ==
    /\ pwaMounted = FALSE
    /\ pwaEvents = 0
    /\ pwaTimer = FALSE
    /\ standaloneMode \in BOOLEAN
    /\ isInstalled = FALSE
    /\ isStandalone = FALSE
    /\ canInstall = FALSE
    /\ deferredPrompt = Null
    /\ lsPwaInstalled \in BOOLEAN
    /\ pwaChoices = <<>>
    /\ pwaLast = PwaStep("init", "")

InitPwa ==
    /\ PwaStart
    /\ FilterIdle
    /\ NearbyIdle
    /\ MarkerIdle
    /\ ButtonIdle

PwaEvent == pwaEvents < MaxPwaEvents /\ pwaEvents' = pwaEvents + 1

\* Lines 27-39 without the read of localStorage.
checkIfInstalledNoStore ==
    /\ isStandalone' = standaloneMode
    /\ isInstalled' = standaloneMode

\* Lines 27-39.
checkIfInstalled ==
    /\ isStandalone' = standaloneMode
    /\ isInstalled' = (standaloneMode \/ lsPwaInstalled)

\* Lines 26-65: the effect on mount.
PwaMount ==
    /\ ~pwaMounted
    /\ pwaMounted' = TRUE
    /\ checkIfInstalled
    /\ pwaTimer' = TRUE
    /\ pwaLast' = PwaStep("mount", "")
    /\ UNCHANGED <<pwaEvents, standaloneMode, canInstall, deferredPrompt, lsPwaInstalled,
                   pwaChoices>>

\* Line 65: the timer fires.
PwaTimerFires ==
    /\ pwaMounted
    /\ pwaTimer
    /\ pwaTimer' = FALSE
    /\ checkIfInstalled
    /\ pwaLast' = PwaStep("timer", "")
    /\ UNCHANGED <<pwaMounted, pwaEvents, standaloneMode, canInstall, deferredPrompt,
                   lsPwaInstalled, pwaChoices>>

\* Lines 45-50.
handleBeforeInstallPrompt ==
    /\ pwaMounted
    /\ PwaEvent
    /\ deferredPrompt' = Prompt(pwaEvents')
    /\ canInstall' = TRUE
    /\ pwaLast' = PwaStep("beforeinstallprompt", "")
    /\ UNCHANGED <<pwaMounted, pwaTimer, standaloneMode, isInstalled, isStandalone,
                   lsPwaInstalled, pwaChoices>>

\* Lines 53-58.
handleAppInstalled ==
    /\ pwaMounted
    /\ PwaEvent
    /\ isInstalled' = TRUE
    /\ canInstall' = FALSE
    /\ lsPwaInstalled' = TRUE
    /\ pwaLast' = PwaStep("appinstalled", "")
    /\ UNCHANGED <<pwaMounted, pwaTimer, standaloneMode, isStandalone, deferredPrompt,
                   pwaChoices>>

\* Lines 74-80: installPWA up to the await of userChoice.
installPWA ==
    /\ pwaMounted
    /\ PwaEvent
    /\ IF ~PromptAvailable(deferredPrompt)
       THEN /\ pwaLast' = PwaStep("installPWA", MsgPromptUnavailable)
            /\ UNCHANGED pwaChoices
       ELSE IF deferredPrompt = Null
       THEN /\ pwaLast' = PwaStep("installPWA", MsgNullPrompt)
            /\ UNCHANGED pwaChoices
       ELSE /\ pwaLast' = PwaStep("installPWA", "")
            /\ pwaChoices' = Append(pwaChoices, Choice(deferredPrompt, TRUE))
    /\ UNCHANGED <<pwaMounted, pwaTimer, standaloneMode, isInstalled, isStandalone,
                   canInstall, deferredPrompt, lsPwaInstalled>>

\* Lines 80-91: userChoice settled. The state setters of an instance that was
\* unmounted meanwhile do nothing; localStorage is written all the same.
PwaUserChoice(i, outcome) ==
    LET ch == pwaChoices[i]
    IN  /\ pwaChoices' = RemoveAt(pwaChoices, i)
        /\ lsPwaInstalled' = IF outcome = "accepted" THEN TRUE ELSE lsPwaInstalled
        /\ IF ch.live
           THEN /\ isInstalled' = IF outcome = "accepted" THEN TRUE ELSE isInstalled
                /\ canInstall' = IF outcome = "accepted" THEN FALSE ELSE canInstall
                /\ deferredPrompt' = Null
           ELSE UNCHANGED <<isInstalled, canInstall, deferredPrompt>>
        /\ pwaLast' = PwaStep(outcome, "")
        /\ UNCHANGED <<pwaMounted, pwaEvents, pwaTimer, standaloneMode, isStandalone>>

\* Lines 67-71: the cleanup on unmount; the next mount is a new instance of
\* the hook with the initial state of lines 16-19.
PwaUnmount ==
    /\ pwaMounted
    /\ PwaEvent
    /\ pwaMounted' = FALSE
    /\ pwaTimer' = FALSE
    /\ isInstalled' = FALSE
    /\ isStandalone' = FALSE
    /\ canInstall' = FALSE
    /\ deferredPrompt' = Null
    /\ pwaChoices' = [i \in DOMAIN pwaChoices |-> Choice(pwaChoices[i].prompt, FALSE)]
    /\ pwaLast' = PwaStep("unmount", "")
    /\ UNCHANGED <<standaloneMode, lsPwaInstalled>>

NextPwa ==
    /\ \/ PwaMount
       \/ PwaTimerFires
       \/ handleBeforeInstallPrompt
       \/ handleAppInstalled
       \/ installPWA
       \/ \E i \in DOMAIN pwaChoices, outcome \in Outcomes : PwaUserChoice(i, outcome)
       \/ PwaUnmount
    /\ UNCHANGED <<filterVars, nearbyVars, markerVars, buttonVars>>

SpecPwa == InitPwa /\ [][NextPwa]_vars

\* C20: installPWA called while no prompt is captured throws the
\* prompt-unavailable error and leaves isInstalled, canInstall,
\* deferredPrompt and the stored 'pwa-installed' flag as they were, and
\* awaits no user choice.
C20_NoPromptThrows ==
    [][(pwaLast'.op = "installPWA" /\ deferredPrompt = Null) =>
          /\ pwaLast'.threw = MsgPromptUnavailable
          /\ UNCHANGED <<isInstalled, canInstall, deferredPrompt, lsPwaInstalled, pwaChoices>>]_vars

C20_Witness ==
    /\ pwaLast.op = "installPWA"
    /\ pwaLast.threw = MsgPromptUnavailable
    /\ pwaMounted
    /\ deferredPrompt = Null
    /\ ~canInstall
    /\ pwaChoices = <<>>

\* The installPWA call whose userChoice settled in this step was made by the
\* hook instance that is still mounted.
SettledLive ==
    \E i \in DOMAIN pwaChoices :
        pwaChoices[i].live /\ pwaChoices' = RemoveAt(pwaChoices, i)

\* C21: when the user dismisses the prompt shown by installPWA, isInstalled
\* and the stored 'pwa-installed' flag are unchanged, and afterwards
\* deferredPrompt is null and canInstall is false.
C21_DismissMakesUnavailable ==
    [][(pwaLast'.op = "dismissed" /\ SettledLive) =>
          /\ isInstalled' = isInstalled
          /\ lsPwaInstalled' = lsPwaInstalled
          /\ deferredPrompt' = Null
          /\ ~canInstall']_vars

\* C22: after the user accepts the install prompt, or after the appinstalled
\* event, isInstalled is true, canInstall is false and 'pwa-installed' is
\* stored as 'true'; the stored flag is never cleared, and every mount that
\* finds it reports isInstalled true, in standalone mode or not.
C22_InstalledPersists ==
    [][/\ (pwaLast'.op = "accepted" /\ SettledLive) =>
             isInstalled' /\ ~canInstall' /\ lsPwaInstalled'
       /\ pwaLast'.op = "accepted" => lsPwaInstalled'
       /\ pwaLast'.op = "appinstalled" =>
             isInstalled' /\ ~canInstall' /\ lsPwaInstalled'
       /\ lsPwaInstalled => lsPwaInstalled'
       /\ (pwaLast'.op \in {"mount", "timer"} /\ lsPwaInstalled) => isInstalled']_vars

C22_Witness ==
    /\ pwaLast.op = "mount"
    /\ pwaEvents >= 3
    /\ ~standaloneMode
    /\ lsPwaInstalled
    /\ isInstalled
    /\ ~canInstall


\* ------------------------------------------------------------ InstallPWAButton
\* The options InstallPWAButton can render.
OptPwa == "Install PWA"
OptApk == "Download Android App"
OptIos == "Add to Home Screen"

\* Lines 16-58: the options one render shows, none when it returns null.
Render(installed, can, android, ios) ==
    IF installed THEN {}
    ELSE {o \in {OptPwa} : can}
            \cup {o \in {OptApk} : android \/ ~can}
            \cup {o \in {OptIos} : ios /\ ~can}

\* What the component shows in the current state.
Shown == Render(isInstalled, canInstall, isAndroid, isIOS)

\* The component mounted on a device whose user agent matches either pattern,
\* both or none.
InitButton ==
    /\ PwaStart
    /\ FilterIdle
    /\ NearbyIdle
    /\ MarkerIdle
    /\ isAndroid \in BOOLEAN
    /\ isIOS \in BOOLEAN
    /\ apkDownloads = 0
    /\ alerts = 0
    /\ propagated = ""

\* Lines 21-27, run by a click on the button of lines 33-38.
handlePWAInstall ==
    /\ OptPwa \in Shown
    /\ installPWA
    /\ alerts' = IF pwaLast'.threw # "" THEN alerts + 1 ELSE alerts
    /\ propagated' = ""
    /\ UNCHANGED <<isAndroid, isIOS, apkDownloads>>

\* Lines 94-102 of usePWAStatus.ts, run by a click on the button of lines
\* 43-48.
downloadAPK ==
    /\ pwaMounted
    /\ OptApk \in Shown
    /\ PwaEvent
    /\ apkDownloads' = apkDownloads + 1
    /\ propagated' = ""
    /\ pwaLast' = PwaStep("downloadAPK", "")
    /\ UNCHANGED <<pwaMounted, pwaTimer, standaloneMode, isInstalled, isStandalone,
                   canInstall, deferredPrompt, lsPwaInstalled, pwaChoices>>
    /\ UNCHANGED <<isAndroid, isIOS, alerts>>

NextButton ==
    /\ \/ PwaMount /\ UNCHANGED buttonVars
       \/ PwaTimerFires /\ UNCHANGED buttonVars
       \/ handleBeforeInstallPrompt /\ UNCHANGED buttonVars
       \/ handleAppInstalled /\ UNCHANGED buttonVars
       \/ handlePWAInstall
       \/ downloadAPK
       \/ \E i \in DOMAIN pwaChoices, outcome \in Outcomes :
              PwaUserChoice(i, outcome) /\ UNCHANGED buttonVars
       \/ PwaUnmount /\ UNCHANGED buttonVars
    /\ UNCHANGED <<filterVars, nearbyVars, markerVars>>

SpecButton == InitButton /\ [][NextButton]_vars

\* C23: the mounted InstallPWAButton renders nothing when the app is
\* installed; otherwise it offers exactly one option: the PWA install button
\* if canInstall, else the APK download on Android, else the instructions on
\* iOS.
C23_OneOptionByPriority ==
    pwaMounted =>
        IF isInstalled THEN Shown = {}
        ELSE /\ canInstall => Shown = {OptPwa}
             /\ (~canInstall /\ isAndroid) => Shown = {OptApk}
             /\ (~canInstall /\ ~isAndroid /\ isIOS) => Shown = {OptIos}

C25_EveryFailureSetsError ==
    /\ last.op = "geolocReject" => error # ""
    /\ (last.op = "fwdResolve" /\ last.calls = <<>>) => error # ""
    /\ (last.op = "availResolve" /\ last.resp.status # 200) => error # ""
    /\ (last.op = "saveResolve" /\ ~last.resp.ok) => error # ""

\* C26: mounted in change-location mode with a saved location, and before the
\* user has done anything, the map is open and centred on the saved location
\* and no step has invoked onLocationSet, onServicesFound or onNoServices.
C26_ChangeModeSilentUntilConfirm ==
    (mounted /\ startInMap /\ events = 0 /\ customerLocation # Null) =>
        /\ showMap
        /\ mapCenter = [lat |-> customerLocation.lat, lng |-> customerLocation.lng]
        /\ last.calls = <<>>

\* The component with a confirmed location whose address form is open, as
\* RerunStart leaves it; from there the user works with the map and the form.
InitMapForm ==
    /\ startInMap = FALSE
    /\ lsToken = TRUE
    /\ events = 0
    /\ \E c \in Coords, r0 \in AvailResponses : RerunStart(c, r0)
    /\ backend = Null
    /\ firstRun = Null
    /\ OutsideIdle

NextMapForm ==
    /\ \/ OpenMap
       \/ CancelMap
       \/ Reselect
       \/ \E c \in Coords : MapClick(c)
       \/ \E i \in DOMAIN geoReqs :
             /\ geoReqs[i].kind = "clickRev"
             /\ \E rev \in RevResponses(geoReqs[i].loc) : ClickRevResolve(i, rev)
       \/ confirmMapLocation
       \/ SaveAndContinue
       \/ \E i \in DOMAIN saveReqs, ok \in BOOLEAN : SaveResolve(i, ok)
       \/ \E i \in DOMAIN availReqs, resp \in AvailResponses : AvailResolve(i, resp)
    /\ UNCHANGED rerunVars
    /\ UNCHANGED outsideVars

SpecMapForm == InitMapForm /\ [][NextMapForm]_vars

\* The coordinates of a location.
CoordsOf(loc) == [lat |-> loc.lat, lng |-> loc.lng]

\* C27: the address details that Save and Continue sends with the confirmed
\* location's coordinates are those looked up for that location, whatever
\* was clicked on the map without being confirmed.
C27_SavedDetailsOfConfirmed ==
    \A i \in DOMAIN saveReqs :
        saveReqs[i].details = deriveAddressDetails(AddressOf(CoordsOf(saveReqs[i].loc)))

\* C28: once the responses to all map clicks have arrived, the selection and
\* the address details are those of the most recent click; and when Reselect
\* or Cancel cleared the selection after that click, no selection exists.
C28_LatestClickWins ==
    (/\ last.op = "clickRevResolve"
     /\ \A i \in DOMAIN geoReqs : geoReqs[i].kind # "clickRev") =>
        IF lastClick = Null THEN selectedMapLocation = Null
        ELSE /\ selectedMapLocation # Null
             /\ CoordsOf(selectedMapLocation) = lastClick
             /\ addressDetails \in {deriveAddressDetails(AddressOf(lastClick)), EmptyDetails}

\* C30: localStorage 'deliveryAddress' changes only in the step in which
\* POST /api/user/location succeeded; a failed POST and a Save and Continue
\* without a token leave it as it was, and both still run
\* checkServiceAvailability.
C30_DeliveryAddressAfterPost ==
    [][/\ lsDeliveryAddress' # lsDeliveryAddress =>
             last'.op = "saveResolve" /\ last'.resp.ok
       /\ (last'.op = "saveResolve" /\ ~last'.resp.ok) =>
             /\ lsDeliveryAddress' = lsDeliveryAddress
             /\ availReqs' = Append(availReqs, AvailReq(last'.req.loc, "save"))
       /\ (last'.op = "saveAndContinue" /\ ~lsToken /\ addressErrors' = {}) =>
             /\ lsDeliveryAddress' = lsDeliveryAddress
             /\ saveReqs' = saveReqs
             /\ last'.noTokenCheck]_vars

C30_Witness ==
    /\ last.op = "saveResolve"
    /\ ~last.resp.ok
    /\ lsDeliveryAddress = Null
    /\ availReqs # <<>>
    /\ availReqs[Len(availReqs)] = AvailReq(customerLocation, "save")


\* Every request the component awaits settles: the browser resolves or
\* rejects each fetch and each axios call.
AvailSettles ==
    /\ \E i \in DOMAIN availReqs, resp \in AvailResponses : AvailResolve(i, resp)
    /\ UNCHANGED <<rerunVars, outsideVars>>

FwdSettles ==
    /\ \E i \in DOMAIN geoReqs, fwd \in FwdResponses : FwdResolve(i, fwd)
    /\ UNCHANGED <<rerunVars, outsideVars>>

Responses == WF_vars(AvailSettles) /\ WF_vars(FwdSettles)

SpecLive == Spec /\ Responses

\* C29: isCheckingAvailability never stays true forever: whenever it is
\* true, it becomes false again once the outstanding responses have arrived.
C29_CheckingEnds == isCheckingAvailability ~> ~isCheckingAvailability

C29_Witness ==
    /\ last.op = "availResolve"
    /\ last.req.by = "effect"
    /\ manualAddress = Text221B
    /\ customerLocation # Null
    /\ availReqs = <<>>
    /\ ~isCheckingAvailability

====
